---- MODULE Spec2Model ----
(***************************************************************************)
(* Verification model of invisible_cities:                                 *)
(*   core/peak_functions.py : time_from_index, rebin_waveform, find_S12    *)
(*   cities/beersheba.py    : create_deconvolution_df, distribute_energy,  *)
(*                            deconvolve_hits, apply_deconvolution,        *)
(*                            beersheba (set-up and event loop),           *)
(*                            create_extract_track_blob_info               *)
(*                                                                         *)
(* Python arrays are modelled as TLA+ sequences (1-based): the sample the  *)
(* code calls i is position i+1 here.  Python dicts keyed by integers are  *)
(* functions whose DOMAIN is the set of keys, so the keys stay 0-based.    *)
(* Energies and times are integers; a quotient the code computes in        *)
(* floating point is kept exact as a pair <<numerator, denominator>>.      *)
(***************************************************************************)
EXTENDS Integers, Sequences, FiniteSets, TLC

VARIABLES
    \* ---- find_S12 (core/peak_functions.py) ----
    wfzs,          \* zero-suppressed energies (argument)
    index,         \* original sample indices (argument)
    tmin, tmax,    \* time window (arguments)
    lmin, lmax,    \* length bounds (arguments)
    stride,        \* maximum index gap inside one peak (argument)
    rebin,         \* rebin flag (argument)
    rebin_stride,  \* samples per rebinned bin (argument)
    T,             \* time_from_index(index)
    S12,           \* dict: group number -> list of [T, P] samples
    S12L,          \* dict: peak number -> [t, e] (the returned mapping)
    i, j,          \* the loop variables of find_S12
    pc, err,       \* control point of find_S12 and the exception it raised
    \* ---- deconvolve_signal / apply_deconvolution (cities/beersheba.py) ----
    cdst,          \* the event's sensor rows (argument df of apply_deconvolution)
    cut_type,      \* configured cut mode
    e_cut,         \* configured cut value, a rational <<numerator, denominator>>
    energy_type,   \* configured energy column, "E" or "Ec"
    deconv_e,      \* the flattened deconvolved image of the slice at hand
    slice_df,      \* the dataframe create_deconvolution_df returned last
    peak_dfs,      \* the slices' dataframes of the peak at hand, concatenated
    deco_dst,      \* the rows of the dataframes appended to deco_dst so far
    peaks_todo,    \* npeak groups still to iterate (ascending)
    slices_todo,   \* Z groups of the peak at hand still to iterate (ascending)
    pc_deco,       \* control point of apply_deconvolution
    deco_err,      \* the exception raised, "none" if none
    \* ---- beersheba: set-up and event loop (cities/beersheba.py) ----
    config,           \* the parameters as the city was called with them
    deconv_params,    \* the dict deconv_params, converted in place
    paolina_params,   \* the dict paolina_params, converted in place
    h5out,            \* "closed", "open": the output file
    n_pulled,         \* events the source has yielded
    events_in,        \* event_count_in
    events_pass,      \* events_passed_no_hits
    events_out,       \* event_count_out
    n_written,        \* events the writers have written
    evt,              \* the event in the pipe: sizes of its cdst and deconv_dst
    pc_city,          \* control point of beersheba
    city_err,         \* the exception that ended the run, "none" if none
    \* ---- create_extract_track_blob_info (cities/beersheba.py) ----
    hitcol,           \* the deconvolved hits of the event (argument)
    energy_threshold, \* configured pruning threshold
    min_voxels,       \* configured voxel-count floor
    blob_radius,      \* configured blob radius
    hit_energy_type,  \* energy_type of the extractor, "E" or "Ec"
    hitc_hits,        \* hitc.hits
    voxels,           \* plf.voxelize_hits(...)
    mod_voxels,       \* the voxels after the optional pruning
    dropped_voxels,   \* the local of that name: <<>> while unbound, else <<list>>
    graphs,           \* plf.make_track_graphs(mod_voxels), in discovery order
    tracks,           \* the tracks sorted in energy
    df_tracks,        \* df, the per-track summary dataframe
    track_hits,       \* the relabelled hits
    c_track,          \* c, the counter of the loop over tracks
    pc_topo,          \* control point of create_extract_track_blob_info
    topo_err,         \* the exception raised, "none" if none
    \* ---- deconvolve_hits (cities/beersheba.py) ----
    deconv_mode,      \* configured mode, "joint" or "separate"
    n_iterations,     \* iteration cap of the deconvolution with the PSF
    n_iterations_g,   \* iteration cap of the pass with the gaussian
    psfs,             \* the PSF table: rows with their grid values x, y, z
    Xpeak, Ypeak,     \* xx, yy: the slice's Xpeak and Ypeak
    slice_z,          \* z, the longitudinal position of the slice (argument)
    zz,               \* the z the PSF is looked up at
    psf,              \* the rows of the table the lookup selected
    deconv_image,     \* the image at hand
    rl_calls,         \* the Richardson-Lucy passes run so far, in order
    pc_hits           \* control point of deconvolve_hits

s12vars == <<wfzs, index, tmin, tmax, lmin, lmax, stride, rebin, rebin_stride,
             T, S12, S12L, i, j, pc, err>>

decovars == <<cdst, cut_type, e_cut, energy_type, deconv_e, slice_df, peak_dfs,
              deco_dst, peaks_todo, slices_todo, pc_deco, deco_err>>

cityvars == <<config, deconv_params, paolina_params, h5out, n_pulled, events_in,
              events_pass, events_out, n_written, evt, pc_city, city_err>>

topovars == <<hitcol, energy_threshold, min_voxels, blob_radius, hit_energy_type,
              hitc_hits, voxels, mod_voxels, dropped_voxels, graphs, tracks,
              df_tracks, track_hits, c_track, pc_topo, topo_err>>

hitsvars == <<deconv_mode, n_iterations, n_iterations_g, psfs, Xpeak, Ypeak, slice_z,
              zz, psf, deconv_image, rl_calls, pc_hits>>

vars == <<s12vars, decovars, cityvars, topovars, hitsvars>>

\* what each function leaves alone: the state of the others
notS12 == <<decovars, cityvars, topovars, hitsvars>>

notDeco == <<s12vars, cityvars, topovars, hitsvars>>

notCity == <<s12vars, decovars, topovars, hitsvars>>

notTopo == <<s12vars, decovars, cityvars, hitsvars>>

notHits == <<s12vars, decovars, cityvars, topovars>>

-----------------------------------------------------------------------------
(* Bounds of the model *)

MaxLen == 3

MaxIndex == 4

MaxBins == 3

MaxRows == 2

NBins == 2

MaxEvents == 2

MaxHits == 3

MaxX == 4

MaxPsfRows == 2

(* Program constants *)

step == 25

DefaultRebinStride == 40

DefaultTmax == 1000000

DefaultLmax == 1000000

-----------------------------------------------------------------------------
(* Generic helpers *)

RECURSIVE SeqSum(_)
SeqSum(s) == IF s = <<>> THEN 0 ELSE Head(s) + SeqSum(Tail(s))

\* sum of s[a..b] (empty when a > b)
SumRange(s, a, b) == SeqSum(SubSeq(s, a, b))

\* the empty dict
EmptyDict == [k \in {} |-> 0]

\* strictly ascending sequences over 0..MaxIndex of length n
RECURSIVE AscSeqs(_, _)
AscSeqs(n, lo) ==
    IF n = 0 THEN {<<>>}
    ELSE UNION {{<<x>> \o s : s \in AscSeqs(n - 1, x + 1)} : x \in lo..MaxIndex}

PVals == {1, 2}

-----------------------------------------------------------------------------
(* core/peak_functions.py *)

\* time_from_index: tzs[i] = step * float(indx[i])
time_from_index(indx) == [k \in 1..Len(indx) |-> step * indx[k]]

\* rebin_waveform raises ZeroDivisionError at len(t) // stride
rebin_raises(st) == st = 0

\* rebin_waveform with the final partial chunk forgotten (lenb = n)
rebin_waveform_NoTail(t, e, st) ==
    LET n == Len(t) \div st
    IN  << [b \in 1..n |-> <<SumRange(t, (b - 1) * st + 1, b * st), st>>],
           [b \in 1..n |-> SumRange(e, (b - 1) * st + 1, b * st)] >>

\* rebin_waveform(t, e, stride), for stride > 0: returns <<T, E>>; a mean
\* time is the pair <<sum of the chunk's times, number of samples>>
rebin_waveform(t, e, st) ==
    LET n    == Len(t) \div st
        r    == Len(t) % st
        lenb == IF r > 0 THEN n + 1 ELSE n
    IN  << [b \in 1..lenb |->
              IF b <= n
              THEN <<SumRange(t, (b - 1) * st + 1, b * st), st>>
              ELSE <<SumRange(t, n * st + 1, Len(t)), Len(t) - n * st>>],
           [b \in 1..lenb |->
              IF b <= n
              THEN SumRange(e, (b - 1) * st + 1, b * st)
              ELSE SumRange(e, n * st + 1, Len(t))] >>

\* the reading in which a gap of one index never opens a group
NewS12_Contig(k) == index[k] - stride > index[k - 1] + 1

\* the test that starts a new group, with >= for >
NewS12_Geq(k) == index[k] - stride >= index[k - 1]

\* find_S12: `if index[i] - stride > index[i-1]:  #new s12`
NewS12(k) == index[k] - stride > index[k - 1]

\* the length test with an inclusive upper bound
LengthOK_Incl(ls) == lmin <= ls /\ ls <= lmax

\* find_S12: `lmin <= ls < lmax`
LengthOK(ls) == lmin <= ls /\ ls < lmax

\* the arrays t, e copied out of a group
GroupT(g) == [k \in 1..Len(g) |-> g[k][1]]
GroupE(g) == [k \in 1..Len(g) |-> g[k][2]]

S12Inputs ==
    /\ \E n \in 0..MaxLen :
         /\ index \in AscSeqs(n, 0)
         /\ wfzs \in [1..n -> PVals]
    /\ tmin \in {0, 2 * step}
    /\ tmax \in {3 * step, DefaultTmax}
    /\ lmin \in {1, 2}
    /\ lmax \in {2, DefaultLmax}
    /\ stride \in 0..2
    /\ \/ rebin = FALSE /\ rebin_stride = DefaultRebinStride
       \/ rebin = TRUE  /\ rebin_stride \in 0..2

S12Idle ==
    /\ wfzs = <<>> /\ index = <<>>
    /\ tmin = 0 /\ tmax = 0 /\ lmin = 0 /\ lmax = 0
    /\ stride = 0 /\ rebin = FALSE /\ rebin_stride = 0
    /\ T = <<>> /\ S12 = EmptyDict /\ S12L = EmptyDict
    /\ i = 0 /\ j = 0 /\ pc = "idle" /\ err = "none"

DecoIdle ==
    /\ cdst = {} /\ cut_type = "abs" /\ e_cut = <<0, 1>> /\ energy_type = "E"
    /\ deconv_e = <<>> /\ slice_df = <<>> /\ peak_dfs = <<>> /\ deco_dst = <<>>
    /\ peaks_todo = <<>> /\ slices_todo = <<>>
    /\ pc_deco = "idle" /\ deco_err = "none"

NoParams == [k \in {} |-> 0]

CityIdle ==
    /\ config = NoParams /\ deconv_params = NoParams /\ paolina_params = NoParams
    /\ h5out = "closed" /\ n_pulled = 0 /\ events_in = 0 /\ events_pass = 0
    /\ events_out = 0 /\ n_written = 0 /\ evt = NoParams
    /\ pc_city = "idle" /\ city_err = "none"

TopoIdle ==
    /\ hitcol = <<>> /\ energy_threshold = 0 /\ min_voxels = 0
    /\ blob_radius = 0 /\ hit_energy_type = "E" /\ dropped_voxels = <<>>
    /\ hitc_hits = <<>> /\ voxels = <<>> /\ mod_voxels = <<>> /\ graphs = <<>>
    /\ tracks = <<>> /\ df_tracks = <<>> /\ track_hits = <<>> /\ c_track = 0
    /\ pc_topo = "idle" /\ topo_err = "none"

HitsIdle ==
    /\ deconv_mode = "joint" /\ n_iterations = 0 /\ n_iterations_g = 0
    /\ psfs = <<>> /\ Xpeak = 0 /\ Ypeak = 0 /\ slice_z = 0 /\ zz = 0
    /\ psf = {} /\ deconv_image = <<>> /\ rl_calls = <<>>
    /\ pc_hits = "idle"

S12Init ==
    /\ DecoIdle /\ CityIdle /\ TopoIdle /\ HitsIdle
    /\ S12Inputs
    /\ T = <<>>
    /\ S12 = EmptyDict
    /\ S12L = EmptyDict
    /\ i = 0
    /\ j = 0
    /\ pc = "start"
    /\ err = "none"

s12args == <<wfzs, index, tmin, tmax, lmin, lmax, stride, rebin, rebin_stride>>

\* lines 191-203: T, the dicts, and the unconditional first sample
S12Begin ==
    /\ pc = "start"
    /\ T' = time_from_index(index)
    /\ IF Len(wfzs) = 0
       THEN /\ pc' = "error"
            /\ err' = "IndexError"      \* T[0] of an empty array
            /\ UNCHANGED <<S12, i, j>>
       ELSE /\ S12' = (0 :> << <<T'[1], wfzs[1]>> >>)
            /\ j' = 0
            /\ i' = 2                    \* range(1, len(wfzs))
            /\ pc' = "scan"
            /\ err' = err
    /\ UNCHANGED <<S12L, s12args>>
    /\ UNCHANGED notS12

\* the first loop is exhausted
S12ScanEnd ==
    /\ pc = "scan"
    /\ i > Len(wfzs)
    /\ pc' = "filter"
    /\ i' = 0
    /\ j' = 0
    /\ UNCHANGED <<T, S12, S12L, err, s12args>>
    /\ UNCHANGED notS12

\* `if T[i] > tmax: break`
S12Break ==
    /\ pc = "scan"
    /\ i <= Len(wfzs)
    /\ T[i] > tmax
    /\ pc' = "filter"
    /\ i' = 0
    /\ j' = 0
    /\ UNCHANGED <<T, S12, S12L, err, s12args>>
    /\ UNCHANGED notS12

\* `if T[i] < tmin: continue`
S12Skip ==
    /\ pc = "scan"
    /\ i <= Len(wfzs)
    /\ ~(T[i] > tmax)
    /\ T[i] < tmin
    /\ i' = i + 1
    /\ UNCHANGED <<T, S12, S12L, j, pc, err, s12args>>
    /\ UNCHANGED notS12

\* lines 212-216: open a new group if the gap exceeds stride, then append
S12Append ==
    /\ pc = "scan"
    /\ i <= Len(wfzs)
    /\ ~(T[i] > tmax)
    /\ ~(T[i] < tmin)
    /\ IF NewS12(i)
       THEN /\ j' = j + 1
            /\ S12' = S12 @@ ((j + 1) :> << <<T[i], wfzs[i]>> >>)
       ELSE /\ j' = j
            /\ S12' = [S12 EXCEPT ![j] = Append(@, <<T[i], wfzs[i]>>)]
    /\ i' = i + 1
    /\ UNCHANGED <<T, S12L, pc, err, s12args>>
    /\ UNCHANGED notS12

\* second loop, `if not (lmin <= ls < lmax): continue`
S12Drop ==
    /\ pc = "filter"
    /\ i \in DOMAIN S12
    /\ ~LengthOK(Len(S12[i]))
    /\ i' = i + 1
    /\ UNCHANGED <<T, S12, S12L, j, pc, err, s12args>>
    /\ UNCHANGED notS12

\* second loop, lines 226-238: copy, rebin if asked, store under key j
S12Keep ==
    /\ pc = "filter"
    /\ i \in DOMAIN S12
    /\ LengthOK(Len(S12[i]))
    /\ IF rebin /\ rebin_raises(rebin_stride)
       THEN /\ pc' = "error"
            /\ err' = "ZeroDivisionError"
            /\ UNCHANGED <<S12L, i, j>>
       ELSE /\ S12L' = S12L @@
                 (j :> IF rebin
                       THEN rebin_waveform(GroupT(S12[i]), GroupE(S12[i]), rebin_stride)
                       ELSE <<GroupT(S12[i]), GroupE(S12[i])>>)
            /\ j' = j + 1
            /\ i' = i + 1
            /\ UNCHANGED <<pc, err>>
    /\ UNCHANGED <<T, S12, s12args>>
    /\ UNCHANGED notS12

\* `return S12L`
S12Return ==
    /\ pc = "filter"
    /\ i \notin DOMAIN S12
    /\ pc' = "done"
    /\ UNCHANGED <<T, S12, S12L, i, j, err, s12args>>
    /\ UNCHANGED notS12

S12Next ==
    \/ S12Begin
    \/ S12ScanEnd
    \/ S12Break
    \/ S12Skip
    \/ S12Append
    \/ S12Drop
    \/ S12Keep
    \/ S12Return

SpecS12 == S12Init /\ [][S12Next]_vars

-----------------------------------------------------------------------------
(* Properties of find_S12 and rebin_waveform *)

NGroups == Cardinality(DOMAIN S12)

\* the group numbers whose length lies in [lmin, lmax), in ascending order
RECURSIVE KeptUpTo(_)
KeptUpTo(n) ==
    IF n = 0 THEN <<>>
    ELSE IF lmin <= Len(S12[n - 1]) /\ Len(S12[n - 1]) < lmax
         THEN Append(KeptUpTo(n - 1), n - 1)
         ELSE KeptUpTo(n - 1)

Kept == KeptUpTo(NGroups)

AllInWindow == \A k \in 1..Len(index) : tmin <= step * index[k] /\ step * index[k] <= tmax

AllGroupsInBounds == \A g \in DOMAIN S12 : lmin <= Len(S12[g]) /\ Len(S12[g]) < lmax

\* samples a and b (positions in the input) lie in the same returned peak
SamePeak(a, b) ==
    \E m \in DOMAIN S12L :
        /\ \E p \in 1..Len(S12L[m][1]) : S12L[m][1][p] = step * index[a]
        /\ \E p \in 1..Len(S12L[m][1]) : S12L[m][1][p] = step * index[b]

BigGaps == {k \in 2..Len(index) : index[k] - index[k - 1] > stride}

\* C1: when every sample time lies in [tmin, tmax] and every group passes the
\* length filter, find_S12 returns 1 + (number of index gaps > stride) peaks,
\* and consecutive samples share a peak iff their index gap is <= stride.
C1_GapRule ==
    (pc = "done" /\ AllInWindow /\ AllGroupsInBounds) =>
        /\ Cardinality(DOMAIN S12L) = 1 + Cardinality(BigGaps)
        /\ ~rebin =>
             \A k \in 2..Len(index) :
                 SamePeak(k - 1, k) <=> (index[k] - index[k - 1] <= stride)

\* two clusters (one of them of two samples) returned as exactly two peaks
C1_Witness ==
    /\ pc = "done" /\ AllInWindow /\ AllGroupsInBounds /\ ~rebin
    /\ Len(index) = 3
    /\ Cardinality(BigGaps) = 1
    /\ Cardinality(DOMAIN S12L) = 2

\* C2: the returned mapping holds exactly the groups whose sample count ls has
\* lmin <= ls < lmax, under the keys 0..k-1 in the order of discovery.
C2_FilterReindex ==
    pc = "done" =>
        /\ DOMAIN S12L = 0..(Len(Kept) - 1)
        /\ \A m \in DOMAIN S12L :
             IF rebin
             THEN S12L[m] = rebin_waveform(GroupT(S12[Kept[m + 1]]),
                                           GroupE(S12[Kept[m + 1]]), rebin_stride)
             ELSE S12L[m] = <<GroupT(S12[Kept[m + 1]]), GroupE(S12[Kept[m + 1]])>>

\* a group of exactly lmax samples is dropped, a later one of exactly lmin
\* samples is kept and returned under key 0
C2_Witness ==
    /\ pc = "done" /\ ~rebin
    /\ NGroups = 2
    /\ Len(S12[0]) = lmax
    /\ Len(S12[1]) = lmin
    /\ DOMAIN S12L = {0}
    /\ S12L[0][1] = GroupT(S12[1])

\* the bin b of a rebinned peak holds the sum of its chunk of st energies
ChunkSum(e, st, b) ==
    SeqSum(SubSeq(e, (b - 1) * st + 1, IF b * st < Len(e) THEN b * st ELSE Len(e)))

Rebinned(m) ==
    LET e  == GroupE(S12[Kept[m + 1]])
        ER == S12L[m][2]
    IN  /\ Len(ER) = (Len(e) + rebin_stride - 1) \div rebin_stride
        /\ \A b \in 1..Len(ER) : ER[b] = ChunkSum(e, rebin_stride, b)
        /\ SeqSum(ER) = SeqSum(e)

\* C3 as stated: for any stride, rebinning returns bins that hold the sums
\* of consecutive chunks of `stride` samples, so the total energy is kept.
C3_RebinAnyStride ==
    rebin =>
        /\ err # "ZeroDivisionError"
        /\ \A m \in DOMAIN S12L :
             SeqSum(S12L[m][2]) = SeqSum(GroupE(S12[Kept[m + 1]]))

\* C3 amended: for any stride >= 1, rebinning does not fail, each bin holds
\* the sum of its chunk of `stride` samples (the last chunk the remaining
\* ones), and the total energy of every rebinned peak is kept.
C3_RebinPositiveStride ==
    (rebin /\ rebin_stride >= 1) =>
        /\ err # "ZeroDivisionError"
        /\ \A m \in DOMAIN S12L : Rebinned(m)

\* a peak of three samples rebinned with stride 2: a full and a partial chunk
C3_Witness ==
    /\ pc = "done" /\ rebin /\ rebin_stride = 2
    /\ \E m \in DOMAIN S12L :
         /\ Len(S12[Kept[m + 1]]) = 3
         /\ Len(S12L[m][2]) = 2

\* C7: on empty input find_S12 returns an empty mapping and does not fail.
C7_EmptyInput ==
    (Len(wfzs) = 0 /\ pc # "start") =>
        /\ pc # "error"
        /\ err = "none"
        /\ DOMAIN S12L = {}

\* the index gap between member k of group g and the member before it
MemberGap(g, k) == (S12[g][k][1] - S12[g][k - 1][1]) \div step

\* C11: in every peak built by find_S12, each member's index is within
\* `stride` of the index of the member before it in the same peak, also
\* when samples before tmin were skipped.
C11_PeakStride ==
    pc \in {"filter", "done"} =>
        \A g \in DOMAIN S12 : \A k \in 2..Len(S12[g]) : MemberGap(g, k) <= stride

\* C12: without rebinning, every sample of every returned peak has a time
\* t = 25 * index with tmin <= t <= tmax, the first sample included.
C12_TimeWindow ==
    (pc = "done" /\ ~rebin) =>
        \A m \in DOMAIN S12L : \A p \in 1..Len(S12L[m][1]) :
            /\ \E k \in 1..Len(index) : S12L[m][1][p] = step * index[k]
            /\ tmin <= S12L[m][1][p]
            /\ S12L[m][1][p] <= tmax

\* samples a and b (positions in the input) lie in the same group
SameGroup(a, b) ==
    \E g \in DOMAIN S12 :
        /\ \E p \in 1..Len(S12[g]) : S12[g][p][1] = step * index[a]
        /\ \E p \in 1..Len(S12[g]) : S12[g][p][1] = step * index[b]

\* C13 as stated: with stride = 0, samples of consecutive indices (gap 1)
\* stay together in one peak and any larger gap starts a new peak.
C13_StrideZeroContiguous ==
    (stride = 0 /\ pc \in {"filter", "done"} /\ AllInWindow) =>
        \A k \in 2..Len(index) :
            SameGroup(k - 1, k) <=> (index[k] - index[k - 1] = 1)

\* C13 amended: with stride = 0 and strictly increasing indices every peak
\* holds exactly one sample, consecutive indices (gap 1) included; when all
\* the samples lie in the window there are as many peaks as samples.
C13_StrideZeroSingletons ==
    (stride = 0 /\ pc \in {"filter", "done"}) =>
        /\ \A g \in DOMAIN S12 : Len(S12[g]) = 1
        /\ AllInWindow => NGroups = Len(index)

\* stride 0, three samples in the window, two of them of consecutive
\* indices, split into three peaks
C13_Witness ==
    /\ stride = 0 /\ pc = "done" /\ AllInWindow
    /\ Len(index) = 3
    /\ index[2] - index[1] = 1
    /\ NGroups = 3

-----------------------------------------------------------------------------
(* cities/beersheba.py: create_deconvolution_df, distribute_energy,        *)
(* deconvolve_hits, apply_deconvolution                                    *)

\* values a deconvolved image bin takes, and the configured cut values
ImageVals == {0, 1, 5, 10}

DecoVals == {0, 5, 10}

ECuts == {<<-1, 1>>, <<2, 5>>, <<5, 1>>}

DecoCuts == {<<-1, 1>>, <<5, 1>>}

ZVals == {10, 20}

NPeaks == {0, 1}

\* the rows an event's cdst is made of
Rows == [event : {1}, npeak : NPeaks, Z : ZVals, E : {2}, Ec : {3}]

\* the ascending sequence of a finite set of integers (groupby sorts its keys)
RECURSIVE SortedSeq(_)
SortedSeq(S) ==
    IF S = {} THEN <<>>
    ELSE LET m == CHOOSE x \in S : \A y \in S : x <= y
         IN  <<m>> \o SortedSeq(S \ {m})

RECURSIVE SeqMax(_)
SeqMax(s) ==
    IF Len(s) = 1 THEN s[1]
    ELSE LET m == SeqMax(Tail(s)) IN IF s[1] > m THEN s[1] ELSE m

\* the positions of the image bins: pos[0], pos[1]
pos(n) == << [b \in 1..n |-> b], [b \in 1..n |-> 0] >>

\* the absolute cut with >= for >
sel_abs_Geq(v, ec) == v * ec[2] >= ec[1]

\* `deconv_e > e_cut`, for one bin
sel_abs(v, ec) == v * ec[2] > ec[1]

\* the relative cut taken against the sum of the image, not its maximum
sel_rel_Sum(v, img, ec) ==
    IF SeqSum(img) = 0 THEN FALSE ELSE v * ec[2] > ec[1] * SeqSum(img)

\* `deconv_e / deconv_e.max() > e_cut`, for one bin of a non-negative image;
\* with a zero maximum the quotient is nan and the comparison is False
sel_rel(v, img, ec) ==
    IF SeqMax(img) = 0 THEN FALSE ELSE v * ec[2] > ec[1] * SeqMax(img)

\* the boolean mask sel_deconv
sel_deconv(img, ct, ec) ==
    [b \in 1..Len(img) |-> IF ct = "abs" THEN sel_abs(img[b], ec)
                                          ELSE sel_rel(img[b], img, ec)]

\* the rows of bins b..Len(img) that the mask selects, in image order
RECURSIVE Masked(_, _, _, _, _)
Masked(hits, img, p, sel, b) ==
    IF b > Len(img) THEN <<>>
    ELSE (IF sel[b]
          THEN << [event |-> (CHOOSE r \in hits : TRUE).event,
                   npeak |-> (CHOOSE r \in hits : TRUE).npeak,
                   X     |-> p[1][b],
                   Y     |-> p[2][b],
                   Z     |-> (CHOOSE r \in hits : TRUE).Z,
                   E     |-> img[b]] >>
          ELSE <<>>) \o Masked(hits, img, p, sel, b + 1)

\* create_deconvolution_df raises ValueError for an unknown cut type
create_deconvolution_df_raises(ct) == ct \notin {"abs", "rel"}

\* create_deconvolution_df(hits, deconv_e, pos, cut_type, e_cut, n_dim) for
\* n_dim = 2: the selected bins as rows (event, npeak, X, Y, Z, E)
create_deconvolution_df(hits, img, p, ct, ec) ==
    Masked(hits, img, p, sel_deconv(img, ct, ec), 1)

\* cdst.loc[:, energy_type.value].sum()
ColumnSum(rows, col) ==
    LET RECURSIVE Sum(_)
        Sum(R) == IF R = {} THEN 0
                  ELSE LET r == CHOOSE x \in R : TRUE
                       IN  (IF col = "E" THEN r.E ELSE r.Ec) + Sum(R \ {r})
    IN  Sum(rows)

\* the column E of a dataframe
ColE(df) == [k \in 1..Len(df) |-> df[k].E]

\* distribute_energy that always reads the uncorrected column E
distribute_energy_ColE(df, rows, etype) ==
    [k \in 1..Len(df) |->
        [df[k] EXCEPT !.E = <<df[k].E * ColumnSum(rows, "E"), SeqSum(ColE(df))>>]]

\* distribute_energy(df, cdst, energy_type):
\*   df.E = df.E / df.E.sum() * cdst[energy_type].sum()
\* kept exact as <<df.E * total, df.E.sum()>>; a zero denominator is the
\* nan numpy computes for 0 / 0 (it warns, it does not raise)
distribute_energy(df, rows, etype) ==
    [k \in 1..Len(df) |->
        [df[k] EXCEPT !.E = <<df[k].E * ColumnSum(rows, etype), SeqSum(ColE(df))>>]]

PeakRows(p) == {r \in cdst : r.npeak = p}

SliceRows(p, z) == {r \in cdst : r.npeak = p /\ r.Z = z}

DecoConfig ==
    /\ cut_type \in {"abs", "rel"}
    /\ e_cut \in DecoCuts
    /\ energy_type \in {"E", "Ec"}

DecoInit ==
    /\ S12Idle /\ CityIdle /\ TopoIdle /\ HitsIdle
    /\ DecoConfig
    /\ cdst \in {c \in SUBSET Rows : Cardinality(c) \in 1..MaxRows}
    /\ deconv_e = <<>>
    /\ slice_df = <<>>
    /\ peak_dfs = <<>>
    /\ deco_dst = <<>>
    /\ peaks_todo = <<>>
    /\ slices_todo = <<>>
    /\ pc_deco = "start"
    /\ deco_err = "none"

decoargs == <<cdst, cut_type, e_cut, energy_type>>

\* lines 277-279: deco_dst = [], the NormQ column, df.groupby("npeak")
DecoBegin ==
    /\ pc_deco = "start"
    /\ deco_dst' = <<>>
    /\ peaks_todo' = SortedSeq({r.npeak : r \in cdst})
    /\ pc_deco' = "peak"
    /\ UNCHANGED <<deconv_e, slice_df, peak_dfs, slices_todo, deco_err, decoargs>>
    /\ UNCHANGED notDeco

\* line 279-280: the next peak, its NormQ, hits.groupby("Z")
DecoPeak ==
    /\ pc_deco = "peak"
    /\ peaks_todo # <<>>
    /\ slices_todo' = SortedSeq({r.Z : r \in PeakRows(Head(peaks_todo))})
    /\ peak_dfs' = <<>>
    /\ pc_deco' = "slice"
    /\ UNCHANGED <<deconv_e, slice_df, deco_dst, peaks_todo, deco_err, decoargs>>
    /\ UNCHANGED notDeco

\* line 281, one element of the list: deconvolve_hits(df_z, z); the image is
\* whatever the Richardson-Lucy deconvolution returns for the slice
DecoSlice ==
    /\ pc_deco = "slice"
    /\ slices_todo # <<>>
    /\ \E img \in [1..NBins -> DecoVals] :
         /\ deconv_e' = img
         /\ slice_df' = create_deconvolution_df(
                            SliceRows(Head(peaks_todo), Head(slices_todo)),
                            img, pos(Len(img)), cut_type, e_cut)
         /\ peak_dfs' = peak_dfs \o slice_df'
    /\ slices_todo' = Tail(slices_todo)
    /\ UNCHANGED <<deco_dst, peaks_todo, pc_deco, deco_err, decoargs>>
    /\ UNCHANGED notDeco

\* lines 281-283: pd.concat of the slices, distribute_energy, append
DecoDistribute ==
    /\ pc_deco = "slice"
    /\ slices_todo = <<>>
    /\ deco_dst' = deco_dst \o
           distribute_energy(peak_dfs, PeakRows(Head(peaks_todo)), energy_type)
    /\ peaks_todo' = Tail(peaks_todo)
    /\ deconv_e' = <<>>          \* the locals of the peak's turn are gone
    /\ slice_df' = <<>>
    /\ peak_dfs' = <<>>
    /\ pc_deco' = "peak"
    /\ UNCHANGED <<slices_todo, deco_err, decoargs>>
    /\ UNCHANGED notDeco

\* line 285: return pd.concat(deco_dst, ignore_index=True)
DecoReturn ==
    /\ pc_deco = "peak"
    /\ peaks_todo = <<>>
    /\ pc_deco' = "done"
    /\ UNCHANGED <<deconv_e, slice_df, peak_dfs, deco_dst, peaks_todo, slices_todo,
                   deco_err, decoargs>>
    /\ UNCHANGED notDeco

DecoNext ==
    \/ DecoBegin
    \/ DecoPeak
    \/ DecoSlice
    \/ DecoDistribute
    \/ DecoReturn

SpecDeco == DecoInit /\ [][DecoNext]_vars

\* ---- one call of create_deconvolution_df on one slice ----

CutInit ==
    /\ S12Idle /\ CityIdle /\ TopoIdle /\ HitsIdle
    /\ cut_type \in {"abs", "rel", "other"}
    /\ e_cut \in ECuts
    /\ energy_type = "E"
    /\ cdst \in {{r} : r \in Rows}
    /\ \E n \in 1..MaxBins : deconv_e \in [1..n -> ImageVals]
    /\ slice_df = <<>>
    /\ peak_dfs = <<>>
    /\ deco_dst = <<>>
    /\ peaks_todo = <<>>
    /\ slices_todo = <<>>
    /\ pc_deco = "cut"
    /\ deco_err = "none"

\* lines 309-325
CutApply ==
    /\ pc_deco = "cut"
    /\ ~create_deconvolution_df_raises(cut_type)
    /\ slice_df' = create_deconvolution_df(cdst, deconv_e, pos(Len(deconv_e)),
                                           cut_type, e_cut)
    /\ pc_deco' = "done"
    /\ UNCHANGED <<deconv_e, peak_dfs, deco_dst, peaks_todo, slices_todo, deco_err,
                   decoargs>>
    /\ UNCHANGED notDeco

\* line 316: raise ValueError
CutRaise ==
    /\ pc_deco = "cut"
    /\ create_deconvolution_df_raises(cut_type)
    /\ deco_err' = "ValueError"
    /\ pc_deco' = "error"
    /\ UNCHANGED <<deconv_e, slice_df, peak_dfs, deco_dst, peaks_todo, slices_todo,
                   decoargs>>
    /\ UNCHANGED notDeco

CutNext ==
    \/ CutApply
    \/ CutRaise

SpecCut == CutInit /\ [][CutNext]_vars

-----------------------------------------------------------------------------
(* Properties of the cut and of the energy redistribution *)

\* the largest value of the image at hand
ImageMax == CHOOSE m \in {deconv_e[b] : b \in 1..Len(deconv_e)} :
                \A b \in 1..Len(deconv_e) : deconv_e[b] <= m

\* bin b passes the cut as the claim states it: value > e_cut in absolute
\* mode, value / maximum > e_cut in relative mode (no quotient, hence no
\* retained bin, when the maximum is 0)
Retained(b) ==
    IF cut_type = "abs"
    THEN deconv_e[b] * e_cut[2] > e_cut[1]
    ELSE ImageMax > 0 /\ deconv_e[b] * e_cut[2] > e_cut[1] * ImageMax

KeptBins == SortedSeq({b \in 1..Len(deconv_e) : Retained(b)})

\* C4: the hits create_deconvolution_df returns are exactly the bins whose
\* value (absolute mode) or value over the image maximum (relative mode) is
\* strictly greater than e_cut, with their positions and values, in image
\* order; image [1, 5, 10] with e_cut 5 keeps {10} in absolute mode, and with
\* e_cut 2/5 keeps {5, 10} in relative mode.
C4_EnergyCut ==
    (pc_deco = "done" /\ cut_type \in {"abs", "rel"} /\ Len(deconv_e) > 0
                      /\ Cardinality(cdst) = 1) =>
        /\ Len(slice_df) = Len(KeptBins)
        /\ \A k \in 1..Len(slice_df) :
             /\ slice_df[k].X = KeptBins[k]
             /\ slice_df[k].E = deconv_e[KeptBins[k]]
             /\ \A r \in cdst : slice_df[k].Z = r.Z /\ slice_df[k].npeak = r.npeak
        /\ (deconv_e = <<1, 5, 10>> /\ cut_type = "abs" /\ e_cut = <<5, 1>>)
               => ColE(slice_df) = <<10>>
        /\ (deconv_e = <<1, 5, 10>> /\ cut_type = "rel" /\ e_cut = <<2, 5>>)
               => ColE(slice_df) = <<5, 10>>

\* the image [1, 5, 10] cut in absolute mode at 5: the bin equal to the cut
\* is dropped
C4_Witness ==
    /\ pc_deco = "done" /\ Cardinality(cdst) = 1
    /\ deconv_e = <<1, 5, 10>> /\ cut_type = "abs" /\ e_cut = <<5, 1>>
    /\ Len(slice_df) = 1

\* the peaks apply_deconvolution has finished with
DonePeaks ==
    IF pc_deco \in {"peak", "slice", "done"}
    THEN {r.npeak : r \in cdst} \ {peaks_todo[k] : k \in 1..Len(peaks_todo)}
    ELSE {}

HitsOf(p) == SelectSeq(deco_dst, LAMBDA h : h.npeak = p)

EnergyNum(hs) == [k \in 1..Len(hs) |-> hs[k].E[1]]

\* C5: for every finished peak whose summed deconvolved energy is nonzero,
\* the emitted hit energies of the peak add up to the sum of the peak's
\* sensor energies of the configured energy type.
C5_PeakEnergyConserved ==
    \A p \in DonePeaks :
        LET hs == HitsOf(p)
        IN  (hs # <<>> /\ hs[1].E[2] # 0) =>
               /\ \A k \in 1..Len(hs) : hs[k].E[2] = hs[1].E[2]
               /\ SeqSum(EnergyNum(hs)) = hs[1].E[2] * ColumnSum(PeakRows(p), energy_type)

\* a finished peak of two slices, with hits in both and at least one bin cut,
\* redistributed from the corrected energy
C5_Witness ==
    /\ pc_deco = "done" /\ energy_type = "Ec"
    /\ \E p \in DonePeaks :
         LET hs == HitsOf(p)
         IN  /\ Len(hs) >= 2 /\ Len(hs) < 2 * NBins
             /\ hs[1].E[2] # 0
             /\ \E k \in 1..Len(hs) : hs[k].Z # hs[1].Z

\* C8: a peak whose redistribution denominator is zero (no survivor, or only
\* zero-energy survivors) raises nothing and contributes no hits.
C8_ZeroDenominatorNoHits ==
    /\ deco_err = "none"
    /\ \A k \in 1..Len(deco_dst) : deco_dst[k].E[2] # 0

-----------------------------------------------------------------------------
(* cities/beersheba.py: beersheba, the set-up and the event loop *)

CutTypes == {"abs", "rel"}

DeconvolutionModes == {"joint", "separate"}

HitEnergies == {"E", "Ec"}

InterpolationMethods == {"none", "linear", "cubic"}

\* a vector parameter of length n (its values play no part)
Vec(n) == [k \in 1..n |-> 1]

Configs ==
    [cut_type     : CutTypes \cup {"relative"},
     deconv_mode  : DeconvolutionModes \cup {"both"},
     energy_type  : HitEnergies \cup {"Q"},
     inter_method : {"cubic", "quadratic"},
     n_dim        : 1..3,
     sample_width : {Vec(2), Vec(3)},
     bin_size     : {Vec(2), Vec(3)},
     diffusion    : {Vec(2), Vec(3)},
     q_cut        : {10},
     drop_dist    : {16},
     paolina_energy_type : {"E", "Q"}]

\* an enumeration called on a value that is not one of its members raises
\* ValueError: lines 485-488 and 492
convert_raises(params) ==
    \/ params.cut_type \notin CutTypes
    \/ params.deconv_mode \notin DeconvolutionModes
    \/ params.energy_type \notin HitEnergies
    \/ params.inter_method \notin InterpolationMethods
    \/ params.paolina_energy_type \notin HitEnergies

\* the enumeration member made from a valid value
Enum(type, value) == <<type, value>>

\* the dimension checks without the test of n_dim > 2
dims_error_NoNdim(params) ==
    IF \E p \in {"sample_width", "bin_size", "diffusion"} :
           Len(params[p]) # params.n_dim
    THEN "ValueError"
    ELSE "none"

\* lines 494-498: the exception the dimension checks raise, "none" if none
dims_error(params) ==
    IF \E p \in {"sample_width", "bin_size", "diffusion"} :
           Len(params[p]) # params.n_dim
    THEN "ValueError"
    ELSE IF params.n_dim > 2 THEN "NotImplementedError" ELSE "none"

\* lines 223-230 of deconvolve_signal: the isinstance checks
deconvolve_signal_raises(params) ==
    \/ params.energy_type[1]  # "HitEnergy"
    \/ params.inter_method[1] # "InterpolationMethod"
    \/ params.cut_type[1]     # "CutType"
    \/ params.deconv_mode[1]  # "DeconvolutionMode"

\* line 82: hitcol.event.unique()[0] of a dataframe of n rows raises
\* IndexError when n = 0
extract_raises(n) == n = 0

CityInit ==
    /\ S12Idle /\ DecoIdle /\ TopoIdle /\ HitsIdle
    /\ config \in Configs
    /\ deconv_params = config
    /\ paolina_params = [energy_type |-> config.paolina_energy_type]
    /\ h5out = "closed"
    /\ n_pulled = 0
    /\ events_in = 0
    /\ events_pass = 0
    /\ events_out = 0
    /\ n_written = 0
    /\ evt = [cdst |-> 0, deconv_dst |-> 0]
    /\ pc_city = "convert"
    /\ city_err = "none"

counters == <<n_pulled, events_in, events_pass, events_out, n_written>>

\* lines 485-492: the enumerations are made from the configured strings
CityConvert ==
    /\ pc_city = "convert"
    /\ IF convert_raises(deconv_params)
       THEN /\ pc_city' = "error"
            /\ city_err' = "ValueError"
            /\ UNCHANGED <<deconv_params, paolina_params>>
       ELSE /\ deconv_params' =
                [deconv_params EXCEPT
                    !.cut_type     = Enum("CutType", @),
                    !.deconv_mode  = Enum("DeconvolutionMode", @),
                    !.energy_type  = Enum("HitEnergy", @),
                    !.inter_method = Enum("InterpolationMethod", @)]
            /\ paolina_params' = [paolina_params EXCEPT !.energy_type = Enum("HitEnergy", @)]
            /\ pc_city' = "check"
            /\ UNCHANGED city_err
    /\ UNCHANGED <<config, h5out, evt, counters>>
    /\ UNCHANGED notCity

\* lines 494-498: vector lengths against n_dim, then n_dim > 2
CityCheck ==
    /\ pc_city = "check"
    /\ IF dims_error(deconv_params) # "none"
       THEN /\ pc_city' = "error"
            /\ city_err' = dims_error(deconv_params)
       ELSE /\ pc_city' = "build"
            /\ UNCHANGED city_err
    /\ UNCHANGED <<config, deconv_params, paolina_params, h5out, evt, counters>>
    /\ UNCHANGED notCity

\* lines 500-518: the pipe's components; q_cut and drop_dist are popped and
\* deconvolve_signal(**deconv_params) is called
CityBuild ==
    /\ pc_city = "build"
    /\ LET popped == [k \in DOMAIN deconv_params \ {"q_cut", "drop_dist"} |->
                          deconv_params[k]]
       IN  /\ deconv_params' = popped
           /\ IF deconvolve_signal_raises(popped)
              THEN pc_city' = "error" /\ city_err' = "ValueError"
              ELSE pc_city' = "open" /\ UNCHANGED city_err
    /\ UNCHANGED <<config, paolina_params, h5out, evt, counters>>
    /\ UNCHANGED notCity

\* lines 520-526: the output file is opened and the writers are made
CityOpen ==
    /\ pc_city = "open"
    /\ h5out' = "open"
    /\ pc_city' = "pull"
    /\ UNCHANGED <<config, deconv_params, paolina_params, evt, counters, city_err>>
    /\ UNCHANGED notCity

\* lines 527-530: the source yields an event; event_count_in
CityPull ==
    /\ pc_city = "pull"
    /\ n_pulled < MaxEvents
    /\ n_pulled' = n_pulled + 1
    /\ events_in' = events_in + 1
    /\ \E n \in 1..MaxRows : evt' = [cdst |-> n, deconv_dst |-> 0]
    /\ pc_city' = "cut"
    /\ UNCHANGED <<config, deconv_params, paolina_params, h5out, events_pass,
                   events_out, n_written, city_err>>
    /\ UNCHANGED notCity

\* lines 531-534: cut_sensors, drop_sensors, then the filter on len(df) > 0
CityCutDrop ==
    /\ pc_city = "cut"
    /\ \E n \in 0..evt.cdst :
         /\ evt' = [evt EXCEPT !.cdst = n]
         /\ IF n > 0
            THEN events_pass' = events_pass + 1 /\ pc_city' = "deconvolve"
            ELSE UNCHANGED events_pass /\ pc_city' = "pull"
    /\ UNCHANGED <<config, deconv_params, paolina_params, h5out, n_pulled, events_in,
                   events_out, n_written, city_err>>
    /\ UNCHANGED notCity

\* line 535: apply_deconvolution; the hits that survive the cut
CityDeconvolve ==
    /\ pc_city = "deconvolve"
    /\ \E n \in 0..NBins : evt' = [evt EXCEPT !.deconv_dst = n]
    /\ pc_city' = "topology"
    /\ UNCHANGED <<config, deconv_params, paolina_params, h5out, counters, city_err>>
    /\ UNCHANGED notCity

\* line 536: create_extract_track_blob_info; an exception leaves the
\* with-block (the file is closed) and ends the run
CityTopology ==
    /\ pc_city = "topology"
    /\ IF extract_raises(evt.deconv_dst)
       THEN /\ pc_city' = "error"
            /\ city_err' = "IndexError"
            /\ h5out' = "closed"
       ELSE /\ pc_city' = "write"
            /\ UNCHANGED <<city_err, h5out>>
    /\ UNCHANGED <<config, deconv_params, paolina_params, evt, counters>>
    /\ UNCHANGED notCity

\* lines 537-544: event_count_out and the writers
CityWrite ==
    /\ pc_city = "write"
    /\ events_out' = events_out + 1
    /\ n_written' = n_written + 1
    /\ pc_city' = "pull"
    /\ UNCHANGED <<config, deconv_params, paolina_params, h5out, n_pulled, events_in,
                   events_pass, evt, city_err>>
    /\ UNCHANGED notCity

\* lines 545-554: the source is exhausted; copy_mc_info, return result
CityFinish ==
    /\ pc_city = "pull"
    /\ h5out' = "closed"
    /\ pc_city' = "done"
    /\ UNCHANGED <<config, deconv_params, paolina_params, evt, counters, city_err>>
    /\ UNCHANGED notCity

CityNext ==
    \/ CityConvert
    \/ CityCheck
    \/ CityBuild
    \/ CityOpen
    \/ CityPull
    \/ CityCutDrop
    \/ CityDeconvolve
    \/ CityTopology
    \/ CityWrite
    \/ CityFinish

SpecCity == CityInit /\ [][CityNext]_vars

\* ---- properties of the city ----

\* the configuration is one the claim calls an error
BadConfig ==
    \/ Len(config.sample_width) # config.n_dim
    \/ Len(config.bin_size) # config.n_dim
    \/ Len(config.diffusion) # config.n_dim
    \/ config.n_dim > 2
    \/ config.energy_type \notin {"E", "Ec"}
    \/ config.paolina_energy_type \notin {"E", "Ec"}
    \/ config.inter_method \notin {"none", "linear", "cubic"}
    \/ config.cut_type \notin {"abs", "rel"}
    \/ config.deconv_mode \notin {"joint", "separate"}

\* C6: with a vector of the wrong length, n_dim > 2 or an unrecognised
\* enumeration value, the run never leaves the set-up except by an error: no
\* event is pulled, cut, deconvolved or written, and the file is not opened.
C6_ConfigErrorsAtSetup ==
    BadConfig =>
        /\ pc_city \in {"convert", "check", "error"}
        /\ pc_city = "error" => city_err \in {"ValueError", "NotImplementedError"}
        /\ n_pulled = 0 /\ events_in = 0 /\ events_pass = 0 /\ events_out = 0
        /\ n_written = 0
        /\ h5out = "closed"

\* valid enumerations and matching vector lengths with n_dim = 3: the run has
\* ended with NotImplementedError
C6_Witness ==
    /\ BadConfig
    /\ config.n_dim = 3 /\ Len(config.sample_width) = 3
    /\ pc_city = "error"
    /\ city_err = "NotImplementedError"

\* C9: an event that reaches the topology extractor with zero hits raises
\* nothing and the run goes on to the writers and to the next event.
C9_EmptyHitsNoRaise ==
    (evt.deconv_dst = 0 /\ events_pass > events_out /\ pc_city \in {"write", "error"})
        => (pc_city = "write" /\ city_err = "none")

-----------------------------------------------------------------------------
(* cities/beersheba.py: create_extract_track_blob_info.  The hits lie on a  *)
(* line: X is the number of the cell of size vox_size the hit falls in.    *)

HitEs == {1, 2}

Thresholds == {0, 2}

MinVoxels == {1, 2}

Reverse(s) == [k \in 1..Len(s) |-> s[Len(s) + 1 - k]]

\* what evm.Hit gives the corrected energy Ec of a hit built without one:
\* the constructor is called with the row's E only
EcDefaults == {-1, 0}

\* convert_true_to_hits: one Hit per row; `id` stands for the object's
\* identity, ec for the Ec the constructor leaves the hit with
convert_true_to_hits(rows, ec) ==
    [k \in 1..Len(rows) |->
        [id |-> k, X |-> rows[k].X, E |-> rows[k].E, Ec |-> ec, track_id |-> -1]]

\* getattr(h, energy_type.value)
HitEnergy(h, etype) == IF etype = "E" THEN h.E ELSE h.Ec

\* pruning whatever the threshold
pruning_Always(thr) == TRUE

\* `if energy_threshold == 0.` ... else: the end points are pruned
pruning(thr) == thr # 0

\* the ids of the hits of hs that fall in cell x, in the order of hs
RECURSIVE HitsIn(_, _)
HitsIn(hs, x) ==
    IF hs = <<>> THEN <<>>
    ELSE (IF Head(hs).X = x THEN <<Head(hs).id>> ELSE <<>>) \o HitsIn(Tail(hs), x)

RECURSIVE HitsE(_, _)
HitsE(hs, x) ==
    IF hs = <<>> THEN 0
    ELSE (IF Head(hs).X = x THEN Head(hs).E ELSE 0) + HitsE(Tail(hs), x)

\* plf.voxelize_hits: one voxel per occupied cell, in ascending order, with
\* the energy and the hits it gathers
voxelize_hits(hs) ==
    LET cells == SortedSeq({hs[k].X : k \in 1..Len(hs)})
    IN  [k \in 1..Len(cells) |->
            [X |-> cells[k], E |-> HitsE(hs, cells[k]), Ehits |-> HitsE(hs, cells[k]),
             hits |-> HitsIn(hs, cells[k])]]

\* the voxels next to voxel k
Neighbours(vs, k) == {n \in 1..Len(vs) : n # k /\ vs[n].X - vs[k].X \in {-1, 1}}

RemoveAt(s, k) == SubSeq(s, 1, k - 1) \o SubSeq(s, k + 1, Len(s))

\* plf.drop_end_point_voxels: end-point voxels below the threshold are
\* dropped one at a time while more than min_vxls voxels are left
RECURSIVE drop_end_point_voxels(_, _, _)
drop_end_point_voxels(vs, thr, min_vxls) ==
    LET ends == {k \in 1..Len(vs) : Cardinality(Neighbours(vs, k)) <= 1 /\ vs[k].E < thr}
    IN  IF Len(vs) > min_vxls /\ ends # {}
        THEN drop_end_point_voxels(
                 RemoveAt(vs, CHOOSE k \in ends : \A n \in ends : k <= n), thr, min_vxls)
        ELSE vs

\* plf.make_track_graphs: the connected components of the neighbour graph,
\* in the order they are discovered; a track is the sequence of its nodes
RECURSIVE make_track_graphs(_)
make_track_graphs(vs) ==
    IF vs = <<>> THEN <<>>
    ELSE LET rest == make_track_graphs(Tail(vs))
         IN  IF rest # <<>> /\ Head(rest)[1].X - Head(vs).X = 1
             THEN << <<Head(vs)>> \o Head(rest) >> \o Tail(rest)
             ELSE << <<Head(vs)>> >> \o rest

\* the sort key: sum([vox.Ehits for vox in t.nodes()])
TrackEnergy(t) == SeqSum([k \in 1..Len(t) |-> t[k].Ehits])

\* x goes after the last element whose key is <= its own
RECURSIVE InsertAsc(_, _)
InsertAsc(s, x) ==
    IF s = <<>> THEN <<x>>
    ELSE IF TrackEnergy(Head(s)) <= TrackEnergy(x)
         THEN <<Head(s)>> \o InsertAsc(Tail(s), x)
         ELSE <<x>> \o s

\* a stable ascending sort
RECURSIVE StableAsc(_)
StableAsc(s) ==
    IF s = <<>> THEN <<>>
    ELSE InsertAsc(StableAsc(SubSeq(s, 1, Len(s) - 1)), s[Len(s)])

\* an ascending sort turned round: descending, with ties in reverse order
sorted_reverse_Flipped(ts) == Reverse(StableAsc(ts))

\* sorted(tracks, key = ..., reverse = True): Python reverses the list, sorts
\* it stably in ascending order and reverses the result
sorted_reverse(ts) == Reverse(StableAsc(Reverse(ts)))

\* the hits of the first voxel of a track only
TrackHitIds_FirstVoxel(t) == IF t = <<>> THEN <<>> ELSE Head(t).hits

\* the hits of a track: [h for vox in t.nodes() for h in vox.hits]
RECURSIVE TrackHitIds(_)
TrackHitIds(t) ==
    IF t = <<>> THEN <<>> ELSE Head(t).hits \o TrackHitIds(Tail(t))

\* plf.find_extrema: the two end voxels of a track
find_extrema(t) == <<t[1], t[Len(t)]>>

Dist(a, b) == IF a >= b THEN a - b ELSE b - a

\* the hits of the track within `radius` of the voxel `extreme`
hits_in_blob(hs, t, extreme, radius) ==
    {h \in {TrackHitIds(t)[n] : n \in 1..Len(TrackHitIds(t))} :
        Dist(hs[h].X, extreme.X) <= radius}

\* the summed energy of type etype of a set of hits, each counted once
HitsEnergy(hs, ids, etype) ==
    LET s == SortedSeq(ids)
    IN  SeqSum([n \in 1..Len(s) |-> HitEnergy(hs[s[n]], etype)])

\* plf.blob_energies_and_hits: the energy and the hits of the blob around
\* each of the two extrema
blob_energies_and_hits(hs, t, radius, etype) ==
    LET hits_blob1 == hits_in_blob(hs, t, find_extrema(t)[1], radius)
        hits_blob2 == hits_in_blob(hs, t, find_extrema(t)[2], radius)
    IN  <<HitsEnergy(hs, hits_blob1, etype), HitsEnergy(hs, hits_blob2, etype),
          hits_blob1, hits_blob2>>

\* line 140: float(sum([h.E for h in set(hits_blob1).intersection(hits_blob2)]))
overlap(hs, hits_blob1, hits_blob2) ==
    LET s == SortedSeq(hits_blob1 \cap hits_blob2)
    IN  SeqSum([n \in 1..Len(s) |-> hs[s[n]].E])

BlobRadii == {0, 1}

HitRows ==  [event : {1}, X : 0..MaxX, E : HitEs]

TopoInit ==
    /\ S12Idle /\ DecoIdle /\ CityIdle /\ HitsIdle
    /\ \E n \in 0..MaxHits : hitcol \in [1..n -> HitRows]
    /\ energy_threshold \in Thresholds
    /\ min_voxels \in MinVoxels
    /\ blob_radius = 1
    /\ hit_energy_type = "E"
    /\ hitc_hits = <<>>
    /\ voxels = <<>>
    /\ mod_voxels = <<>>
    /\ dropped_voxels = <<>>
    /\ graphs = <<>>
    /\ tracks = <<>>
    /\ df_tracks = <<>>
    /\ track_hits = <<>>
    /\ c_track = 0
    /\ pc_topo = "start"
    /\ topo_err = "none"

topoargs == <<hitcol, energy_threshold, min_voxels, blob_radius, hit_energy_type>>

\* lines 82-83: the event number of the first row, the Hit objects
TopoBegin ==
    /\ pc_topo = "start"
    /\ IF extract_raises(Len(hitcol))
       THEN /\ pc_topo' = "error"
            /\ topo_err' = "IndexError"
            /\ UNCHANGED hitc_hits
       ELSE /\ \E ec \in EcDefaults : hitc_hits' = convert_true_to_hits(hitcol, ec)
            /\ pc_topo' = "voxelize"
            /\ UNCHANGED topo_err
    /\ UNCHANGED <<voxels, mod_voxels, graphs, tracks, df_tracks, track_hits, c_track,
                   topoargs>>
    /\ UNCHANGED dropped_voxels
    /\ UNCHANGED notTopo

\* lines 85-87: voxelize; with a zero threshold the voxels are kept as they are
TopoVoxelizeKeep ==
    /\ pc_topo = "voxelize"
    /\ ~pruning(energy_threshold)
    /\ voxels' = voxelize_hits(hitc_hits)
    /\ mod_voxels' = voxels'
    /\ UNCHANGED dropped_voxels
    /\ pc_topo' = "tracks"
    /\ UNCHANGED <<hitc_hits, graphs, tracks, df_tracks, track_hits, c_track, topo_err,
                   topoargs>>
    /\ UNCHANGED notTopo

\* lines 85-89: voxelize; with a nonzero threshold the end points are pruned
TopoVoxelizePrune ==
    /\ pc_topo = "voxelize"
    /\ pruning(energy_threshold)
    /\ voxels' = voxelize_hits(hitc_hits)
    /\ mod_voxels' = drop_end_point_voxels(voxels', energy_threshold, min_voxels)
    /\ dropped_voxels' = << SelectSeq(voxels', LAMBDA v :
                                \A n \in 1..Len(mod_voxels') : mod_voxels'[n] # v) >>
    /\ pc_topo' = "tracks"
    /\ UNCHANGED <<hitc_hits, graphs, tracks, df_tracks, track_hits, c_track, topo_err,
                   topoargs>>
    /\ UNCHANGED notTopo

\* lines 90-110: the track graphs, sorted in energy; the empty dataframe
TopoTracks ==
    /\ pc_topo = "tracks"
    /\ graphs' = make_track_graphs(mod_voxels)
    /\ tracks' = sorted_reverse(graphs')
    /\ df_tracks' = <<>>
    /\ track_hits' = <<>>
    /\ c_track' = 0
    /\ pc_topo' = "loop"
    /\ UNCHANGED <<hitc_hits, voxels, mod_voxels, topo_err, topoargs>>
    /\ UNCHANGED dropped_voxels
    /\ UNCHANGED notTopo

\* lines 111-152, one turn of the loop: the row of track c and the new
\* track_id of its hits
TopoRow ==
    /\ pc_topo = "loop"
    /\ c_track < Len(tracks)
    /\ LET t   == tracks[c_track + 1]
           ids == TrackHitIds(t)
           xs  == {hitc_hits[ids[k]].X : k \in 1..Len(ids)}
           blobs == blob_energies_and_hits(hitc_hits, t, blob_radius, hit_energy_type)
       IN  /\ df_tracks' = Append(df_tracks,
                  [event          |-> hitcol[1].event,
                   trackID        |-> c_track,
                   energy         |-> TrackEnergy(t),
                   numb_of_voxels |-> Len(t),
                   numb_of_hits   |-> Len(ids),
                   numb_of_tracks |-> Len(tracks),
                   x_min          |-> CHOOSE x \in xs : \A y \in xs : x <= y,
                   x_max          |-> CHOOSE x \in xs : \A y \in xs : x >= y,
                   eblob1         |-> blobs[1],
                   eblob2         |-> blobs[2],
                   ovlp_blob_energy |-> overlap(hitc_hits, blobs[3], blobs[4])])
           /\ hitc_hits' = [k \in 1..Len(hitc_hits) |->
                  IF \E n \in 1..Len(ids) : ids[n] = k
                  THEN [hitc_hits[k] EXCEPT !.track_id = c_track]
                  ELSE hitc_hits[k]]
           /\ track_hits' = track_hits \o
                  [n \in 1..Len(ids) |-> [hitc_hits[ids[n]] EXCEPT !.track_id = c_track]]
    /\ c_track' = c_track + 1
    /\ UNCHANGED <<voxels, mod_voxels, graphs, tracks, pc_topo, topo_err, topoargs>>
    /\ UNCHANGED dropped_voxels
    /\ UNCHANGED notTopo

\* lines 155-160: return df, track_hitc, mod_voxels
TopoReturn ==
    /\ pc_topo = "loop"
    /\ c_track = Len(tracks)
    /\ pc_topo' = "done"
    /\ UNCHANGED <<hitc_hits, voxels, mod_voxels, graphs, tracks, df_tracks, track_hits,
                   c_track, topo_err, topoargs>>
    /\ UNCHANGED dropped_voxels
    /\ UNCHANGED notTopo

TopoNext ==
    \/ TopoBegin
    \/ TopoVoxelizeKeep
    \/ TopoVoxelizePrune
    \/ TopoTracks
    \/ TopoRow
    \/ TopoReturn

SpecTopo == TopoInit /\ [][TopoNext]_vars

\* the extractor called with any blob radius and either energy type
BlobInit ==
    /\ S12Idle /\ DecoIdle /\ CityIdle /\ HitsIdle
    /\ \E n \in 0..MaxHits : hitcol \in [1..n -> HitRows]
    /\ energy_threshold \in Thresholds
    /\ min_voxels = 1
    /\ blob_radius \in BlobRadii
    /\ hit_energy_type \in HitEnergies
    /\ hitc_hits = <<>>
    /\ voxels = <<>>
    /\ mod_voxels = <<>>
    /\ dropped_voxels = <<>>
    /\ graphs = <<>>
    /\ tracks = <<>>
    /\ df_tracks = <<>>
    /\ track_hits = <<>>
    /\ c_track = 0
    /\ pc_topo = "start"
    /\ topo_err = "none"

SpecBlob == BlobInit /\ [][TopoNext]_vars

\* ---- properties of the topology extractor ----

\* the place of a sorted track in the discovery order
Discovery(t) == CHOOSE g \in 1..Len(graphs) : graphs[g] = t

\* C10: the summary rows carry trackID 0..n-1, one per track, in order of
\* descending summed voxel energy, and tracks of equal energy keep their
\* discovery order.
C10_TrackOrder ==
    pc_topo = "done" =>
        /\ Len(df_tracks) = Len(graphs)
        /\ \A g \in 1..Len(graphs) : \E k \in 1..Len(tracks) : tracks[k] = graphs[g]
        /\ \A k \in 1..Len(df_tracks) :
             /\ df_tracks[k].trackID = k - 1
             /\ df_tracks[k].energy = TrackEnergy(tracks[k])
        /\ \A k \in 1..(Len(df_tracks) - 1) :
             df_tracks[k].energy >= df_tracks[k + 1].energy
        /\ \A a, b \in 1..Len(df_tracks) :
             (a < b /\ df_tracks[a].energy = df_tracks[b].energy)
                 => Discovery(tracks[a]) < Discovery(tracks[b])

\* three tracks, two of them of equal energy: the sort has moved a track
\* and has had a tie to keep
C10_Witness ==
    /\ pc_topo = "done"
    /\ Len(df_tracks) = 3
    /\ tracks # graphs
    /\ \E a, b \in 1..Len(df_tracks) :
         a < b /\ df_tracks[a].energy = df_tracks[b].energy

\* the track_id an emitted hit carries: track_hits holds the Hit objects of
\* hitc.hits themselves, so it is the object's final track_id
EmittedTrackId(n) == hitc_hits[track_hits[n].id].track_id

\* hit h is one of the hits of a voxel of the track of rank k - 1
BelongsTo(h, k) ==
    \E v \in 1..Len(tracks[k]) : \E p \in 1..Len(tracks[k][v].hits) :
        tracks[k][v].hits[p] = h

\* C14: every hit of a voxel of a track is emitted exactly once, with
\* track_id equal to the row index of its track in the energy-sorted
\* summary; no emitted hit carries the id of a track it is not in; every
\* emitted track_id lies in 0..numb_of_tracks-1.
C14_HitRelabel ==
    pc_topo = "done" =>
        /\ \A k \in 1..Len(tracks) : \A h \in 1..Len(hitc_hits) :
             BelongsTo(h, k) =>
                 /\ Cardinality({n \in 1..Len(track_hits) : track_hits[n].id = h}) = 1
                 /\ \A n \in 1..Len(track_hits) :
                      track_hits[n].id = h =>
                          /\ EmittedTrackId(n) = df_tracks[k].trackID
                          /\ track_hits[n].track_id = EmittedTrackId(n)
        /\ \A n \in 1..Len(track_hits) :
             /\ EmittedTrackId(n) \in 0..(Len(tracks) - 1)
             /\ EmittedTrackId(n) + 1 \in 1..Len(tracks)
                    => BelongsTo(track_hits[n].id, EmittedTrackId(n) + 1)
        /\ \A k \in 1..Len(df_tracks) : df_tracks[k].numb_of_tracks = Len(tracks)

\* two tracks, put in another order by the sort, one of them of two voxels:
\* its hits carry the rank, which is not the discovery number
C14_Witness ==
    /\ pc_topo = "done"
    /\ Len(tracks) = 2
    /\ tracks # graphs
    /\ Len(tracks[1]) = 2
    /\ Len(track_hits) = 3
    /\ \A n \in 1..Len(track_hits) :
         BelongsTo(track_hits[n].id, 1) <=> EmittedTrackId(n) = 0

\* the blobs of the track of row k, as the extractor computed them
BlobsOf(k) == blob_energies_and_hits(hitc_hits, tracks[k], blob_radius, hit_energy_type)

\* C15: ovlp_blob_energy of a track is the sum, over the hits in both blob
\* hit sets, of the hit's energy of the configured energy type, each hit
\* counted once; it is zero when the sets are disjoint; eblob1 and eblob2
\* each count a shared hit in full.
C15_BlobOverlap ==
    pc_topo = "done" =>
        \A k \in 1..Len(df_tracks) :
            /\ df_tracks[k].ovlp_blob_energy =
                   HitsEnergy(hitc_hits, BlobsOf(k)[3] \cap BlobsOf(k)[4], hit_energy_type)
            /\ BlobsOf(k)[3] \cap BlobsOf(k)[4] = {} => df_tracks[k].ovlp_blob_energy = 0
            /\ df_tracks[k].eblob1 = HitsEnergy(hitc_hits, BlobsOf(k)[3], hit_energy_type)
            /\ df_tracks[k].eblob2 = HitsEnergy(hitc_hits, BlobsOf(k)[4], hit_energy_type)

\* some track holds voxel v
InSomeTrack(v) ==
    \E k \in 1..Len(tracks) : \E n \in 1..Len(tracks[k]) : tracks[k][n] = v

Min(a, b) == IF a <= b THEN a ELSE b

\* C17: with energy_threshold = 0 the end-point pruning is never called, the
\* emitted voxel list is the voxelization output itself and the tracks are
\* built over all the voxels; with a nonzero threshold the voxels left are
\* never fewer than min_voxels (or than there were, if fewer).
C17_NoPruneAtZero ==
    pc_topo \in {"tracks", "loop", "done"} =>
        /\ energy_threshold = 0 =>
             /\ dropped_voxels = <<>>
             /\ mod_voxels = voxels
             /\ pc_topo # "tracks" =>
                    \A n \in 1..Len(voxels) : InSomeTrack(voxels[n])
        /\ mod_voxels # voxels => energy_threshold # 0
        /\ energy_threshold # 0 =>
             /\ dropped_voxels # <<>>
             /\ Len(mod_voxels) >= Min(min_voxels, Len(voxels))
             /\ Len(mod_voxels) + Len(dropped_voxels[1]) = Len(voxels)

\* threshold zero and voxels the lowest nonzero threshold would have
\* pruned: they are all emitted, and the pruning was not called
C17_Witness ==
    /\ pc_topo = "done"
    /\ energy_threshold = 0
    /\ dropped_voxels = <<>>
    /\ Len(voxels) = 3
    /\ mod_voxels = voxels
    /\ drop_end_point_voxels(voxels, 2, min_voxels) # voxels

-----------------------------------------------------------------------------
(* cities/beersheba.py: deconvolve_hits.  A float is a record: a finite    *)
(* number, nan, an infinity, or the largest finite double of either sign.  *)

Fin(v) == [kind |-> "finite", v |-> v]

NaN == [kind |-> "nan", v |-> 0]

PosInf == [kind |-> "posinf", v |-> 0]

NegInf == [kind |-> "neginf", v |-> 0]

FloatMax == [kind |-> "max", v |-> 0]

FloatMin == [kind |-> "min", v |-> 0]

\* numpy.nan_to_num with its defaults: nan becomes 0.0, an infinity the
\* largest finite double of its sign
nan_to_num(img) ==
    [b \in DOMAIN img |->
        CASE img[b].kind = "nan"    -> Fin(0)
          [] img[b].kind = "posinf" -> FloatMax
          [] img[b].kind = "neginf" -> FloatMin
          [] OTHER                  -> img[b]]

\* find_nearest: the value of the array closest to `value`, the first one
\* if two are equally close
find_nearest(array, value) ==
    array[CHOOSE k \in 1..Len(array) :
            \A n \in 1..Len(array) :
                /\ Dist(array[k], value) <= Dist(array[n], value)
                /\ Dist(array[k], value) = Dist(array[n], value) => k <= n]

\* the columns of the PSF table
psfs_x == [k \in 1..Len(psfs) |-> psfs[k].x]

psfs_y == [k \in 1..Len(psfs) |-> psfs[k].y]

psfs_z == [k \in 1..Len(psfs) |-> psfs[k].z]

\* the PSF looked up at the slice's own z in either mode
psf_z_Slice(mode, z) == z

\* `zz = z if deconv_mode is DeconvolutionMode.joint else 0`
psf_z(mode, z) == IF mode = "joint" THEN z ELSE 0

\* psfs.loc[(psfs.z == ...) & (psfs.x == ...) & (psfs.y == ...), :]
psf_loc(z0, x0, y0) ==
    {psfs[k] : k \in {n \in 1..Len(psfs) :
        /\ psfs[n].z = find_nearest(psfs_z, z0)
        /\ psfs[n].x = find_nearest(psfs_x, x0)
        /\ psfs[n].y = find_nearest(psfs_y, y0)}}

\* df.NormQ.values, the observed image of the slice
Observed == <<Fin(1), Fin(1)>>

\* the images a Richardson-Lucy pass may return
RLOutputs ==
    { <<Fin(5), Fin(5)>>, <<NaN, Fin(5)>>, <<PosInf, NaN>>, <<Fin(5), NegInf>> }

PsfRows == [x : {0, 2}, y : {0, 2}, z : {0, 10}]

HitsInit ==
    /\ S12Idle /\ DecoIdle /\ CityIdle /\ TopoIdle
    /\ deconv_mode \in DeconvolutionModes
    /\ n_iterations \in {1, 2}
    /\ n_iterations_g \in {1, 2}
    /\ \E n \in 1..MaxPsfRows : psfs \in [1..n -> PsfRows]
    /\ Xpeak \in {0, 1}
    /\ Ypeak = 2
    /\ slice_z \in {4, 10}
    /\ zz = 0
    /\ psf = {}
    /\ deconv_image = <<>>
    /\ rl_calls = <<>>
    /\ pc_hits = "start"

hitsargs == <<deconv_mode, n_iterations, n_iterations_g, psfs, Xpeak, Ypeak, slice_z>>

\* lines 246-250: the z of the lookup and the rows it selects
HitsLookup ==
    /\ pc_hits = "start"
    /\ zz' = psf_z(deconv_mode, slice_z)
    /\ psf' = psf_loc(zz', Xpeak, Ypeak)
    /\ pc_hits' = "deconvolve"
    /\ UNCHANGED <<deconv_image, rl_calls, hitsargs>>
    /\ UNCHANGED notHits

\* line 251: deconvolution(...), one pass with the PSF, capped by n_iterations
HitsDeconvolve ==
    /\ pc_hits = "deconvolve"
    /\ \E out \in RLOutputs :
         /\ deconv_image' = out
         /\ rl_calls' = Append(rl_calls,
                [kernel |-> "psf", z |-> zz, cap |-> n_iterations,
                 image |-> Observed, out |-> out])
    /\ pc_hits' = "mode"
    /\ UNCHANGED <<zz, psf, hitsargs>>
    /\ UNCHANGED notHits

\* lines 253-254: joint mode, `pass`
HitsJoint ==
    /\ pc_hits = "mode"
    /\ deconv_mode = "joint"
    /\ pc_hits' = "cut"
    /\ UNCHANGED <<zz, psf, deconv_image, rl_calls, hitsargs>>
    /\ UNCHANGED notHits

\* lines 255-260: separate mode, the gaussian of the slice's z and the
\* second pass, capped by n_iterations_g, through nan_to_num
HitsSeparate ==
    /\ pc_hits = "mode"
    /\ deconv_mode = "separate"
    /\ \E out \in RLOutputs :
         /\ deconv_image' = nan_to_num(out)
         /\ rl_calls' = Append(rl_calls,
                [kernel |-> "gaus", z |-> slice_z, cap |-> n_iterations_g,
                 image |-> deconv_image, out |-> out])
    /\ pc_hits' = "cut"
    /\ UNCHANGED <<zz, psf, hitsargs>>
    /\ UNCHANGED notHits

\* line 262: the image goes to create_deconvolution_df
HitsReturn ==
    /\ pc_hits = "cut"
    /\ pc_hits' = "done"
    /\ UNCHANGED <<zz, psf, deconv_image, rl_calls, hitsargs>>
    /\ UNCHANGED notHits

HitsNext ==
    \/ HitsLookup
    \/ HitsDeconvolve
    \/ HitsJoint
    \/ HitsSeparate
    \/ HitsReturn

SpecHits == HitsInit /\ [][HitsNext]_vars

\* ---- properties of deconvolve_hits ----

\* the z the lookup is to use: the slice's in joint mode, 0 in separate mode
ExpectedZ == IF deconv_mode = "joint" THEN slice_z ELSE 0

\* value v of column col is as close to `value` as any value of the column
Nearest(col, v, value) ==
    /\ \E k \in 1..Len(col) : col[k] = v
    /\ \A k \in 1..Len(col) : Dist(v, value) <= Dist(col[k], value)

\* the selected rows are those that carry, on each axis by itself, a grid
\* value nearest to the looked-up coordinate
LookupPerAxis ==
    \E vx \in {0, 2}, vy \in {0, 2}, vz \in {0, 10} :
        /\ Nearest(psfs_x, vx, Xpeak)
        /\ Nearest(psfs_y, vy, Ypeak)
        /\ Nearest(psfs_z, vz, ExpectedZ)
        /\ psf = {psfs[k] : k \in {n \in 1..Len(psfs) :
                     psfs[n].x = vx /\ psfs[n].y = vy /\ psfs[n].z = vz}}

\* the pass with the PSF, and in separate mode the one pass more with the
\* gaussian of the slice's z on the image the first pass returned
PassesByMode ==
    /\ rl_calls[1].kernel = "psf"
    /\ rl_calls[1].z = ExpectedZ
    /\ rl_calls[1].cap = n_iterations
    /\ deconv_mode = "joint" =>
         /\ Len(rl_calls) = 1
         /\ deconv_image = rl_calls[1].out
    /\ deconv_mode = "separate" =>
         /\ Len(rl_calls) = 2
         /\ rl_calls[2].kernel = "gaus"
         /\ rl_calls[2].z = slice_z
         /\ rl_calls[2].cap = n_iterations_g
         /\ rl_calls[2].image = rl_calls[1].out

\* C16 as stated: the lookups are per axis, at the slice's z in joint mode
\* and at z = 0 in separate mode; joint mode runs one pass, separate mode
\* one more with the gaussian, capped by n_iterations_g, and every
\* non-finite value of its output is replaced by zero.
C16_NonFiniteToZero ==
    pc_hits = "done" =>
        /\ LookupPerAxis
        /\ PassesByMode
        /\ deconv_mode = "separate" =>
             \A b \in 1..Len(deconv_image) :
                 deconv_image[b] =
                     IF rl_calls[2].out[b].kind = "finite"
                     THEN rl_calls[2].out[b] ELSE Fin(0)

\* C16 amended: as above, but of the non-finite values only nan is replaced
\* by zero; an infinite value is replaced by the largest finite double of
\* its sign.
C16_ModeProcessing ==
    pc_hits = "done" =>
        /\ LookupPerAxis
        /\ PassesByMode
        /\ deconv_mode = "separate" =>
             \A b \in 1..Len(deconv_image) :
                 /\ rl_calls[2].out[b].kind = "finite" =>
                        deconv_image[b] = rl_calls[2].out[b]
                 /\ rl_calls[2].out[b].kind = "nan" => deconv_image[b] = Fin(0)
                 /\ rl_calls[2].out[b].kind = "posinf" => deconv_image[b] = FloatMax
                 /\ rl_calls[2].out[b].kind = "neginf" => deconv_image[b] = FloatMin

\* separate mode on a table with rows at two z: the lookup went to z = 0
\* though the slice is nearer the other, and the second pass returned a nan
\* and an infinity
C16_Witness ==
    /\ pc_hits = "done"
    /\ deconv_mode = "separate"
    /\ slice_z = 10
    /\ \E a, b \in 1..Len(psfs) : psfs[a].z = 0 /\ psfs[b].z = 10
    /\ psf # {}
    /\ \A r \in psf : r.z = 0
    /\ Len(rl_calls) = 2
    /\ rl_calls[2].out = <<PosInf, NaN>>
    /\ deconv_image = <<FloatMax, Fin(0)>>

====
